---- MODULE Spec2Model ----
(***************************************************************************)
(* Model of response_fytter/hierarchical_bayes/backends.py: the base class *)
(* HierarchicalModel (row-count check, subject-index normalizer), the Stan *)
(* adapter (compiled-model cache, sampling, result accessors) and the      *)
(* PyMC3 adapter (sampling only).  One instance is constructed and then    *)
(* used; the external engines (pystan, pymc3) are nondeterministic.        *)
(***************************************************************************)
EXTENDS Integers, Sequences, FiniteSets, TLC

\* ---------------------------------------------------------------- bounds
MaxRows == 3    \* longest subject_ids / signal sequence, most rows of X
MaxCols == 2    \* most predictor columns of X
MaxDraws == 2   \* posterior draws the engine returns from one call

SubjectLabels == {1, 3, 5}
Seeds == {1, 2}

VARIABLES cls, status, attrs, X, subject_ids, unique_subject_ids, n_subjects,
          subj_idx, model, results, cacheFile, last

vars == <<cls, status, attrs, X, subject_ids, unique_subject_ids, n_subjects,
          subj_idx, model, results, cacheFile, last>>

\* ------------------------------------------------------- numpy / pandas
\* A numpy array of labels or reals: its shape and its flat (C-order) data.
Array1(seq) == [shape |-> <<Len(seq)>>, data |-> seq]
Column(seq) == [shape |-> <<Len(seq), 1>>, data |-> seq]

NotOne(d) == d # 1
\* ndarray.squeeze(): drops every axis of length one.
Squeeze(a) == [shape |-> SelectSeq(a.shape, NotOne), data |-> a.data]

\* pd.DataFrame(X): default integer column labels 0..m-1.
RECURSIVE RangeIndex(_)
RangeIndex(m) == IF m = 0 THEN <<>> ELSE Append(RangeIndex(m - 1), m - 1)
DataFrame(values, m) == [columns |-> RangeIndex(m), values |-> values]
NRows(df) == Len(df.values)
NCols(df) == Len(df.columns)

\* np.sort: insertion into an ascending sequence.
RECURSIVE InsertSorted(_, _)
InsertSorted(s, v) ==
    IF s = <<>> THEN <<v>>
    ELSE IF v <= Head(s) THEN <<v>> \o s
    ELSE <<Head(s)>> \o InsertSorted(Tail(s), v)
RECURSIVE NpSort(_)
NpSort(s) == IF s = <<>> THEN <<>> ELSE InsertSorted(NpSort(Tail(s)), Head(s))

\* np.unique: sorts, then keeps the first element of every run of equals.
RECURSIVE DropRepeats(_)
DropRepeats(s) ==
    IF Len(s) <= 1 THEN s
    ELSE IF s[1] = s[2] THEN DropRepeats(Tail(s))
    ELSE <<s[1]>> \o DropRepeats(Tail(s))
NpUnique(s) == DropRepeats(NpSort(s))

\* np.searchsorted(a, v), side='left': bisection on the 0-based range [lo, hi).
RECURSIVE Bisect(_, _, _, _)
Bisect(a, v, lo, hi) ==
    IF lo >= hi THEN lo
    ELSE LET mid == (lo + hi) \div 2
         IN IF a[mid + 1] < v THEN Bisect(a, v, mid + 1, hi)
            ELSE Bisect(a, v, lo, mid)
\* side='right' instead of the default side='left'.
RECURSIVE BisectRight(_, _, _, _)
BisectRight(a, v, lo, hi) ==
    IF lo >= hi THEN lo
    ELSE LET mid == (lo + hi) \div 2
         IN IF a[mid + 1] <= v THEN BisectRight(a, v, mid + 1, hi)
            ELSE BisectRight(a, v, lo, mid)
SearchSortedRight(a, v) == BisectRight(a, v, 0, Len(a))
SearchSortedOne(a, v) == Bisect(a, v, 0, Len(a))
SearchSorted(a, vs) == [i \in 1..Len(vs) |-> SearchSortedOne(a, vs[i])]

\* ------------------------------------------------- HierarchicalModel
\* _get_subj_idx on the stored (squeezed) subject_ids.
GetSubjIdx(ids) ==
    LET u == NpSort(NpUnique(ids.data))
    IN [unique_subject_ids |-> u,
        n_subjects |-> Len(u),
        subj_idx |-> SearchSorted(u, ids.data)]

\* The row-count check of HierarchicalModel.__init__: the error it raises, or
\* "" when it passes.  shape[0] of a zero-dimensional array is an IndexError.
RowCountCheck(ids, df) ==
    IF Len(ids.shape) = 0 THEN "IndexError"
    ELSE IF ids.shape[1] # NRows(df) THEN "InputShapeError"
    ELSE ""

\* The check of HierarchicalModel.sample: len() of a zero-dimensional array
\* is a TypeError.
SignalCheck(signal, df) ==
    LET measure == Squeeze(signal)
    IN IF Len(measure.shape) = 0 THEN "TypeError"
       ELSE IF measure.shape[1] # NRows(df) THEN "SignalShapeError"
       ELSE ""

\* The five attributes HierarchicalModel.__init__ leaves on the instance, the
\* set of attributes that exist afterwards, and the error raised ("" if none).
\* X and subject_ids are assigned before the check; the normalizer runs only
\* after it has passed.
HierarchicalModelInit(df, ids) ==
    LET sq == Squeeze(ids)
        err == RowCountCheck(sq, df)
        norm == GetSubjIdx(sq)
    IN IF err # ""
       THEN [error |-> err, X |-> df, subject_ids |-> sq,
             unique_subject_ids |-> <<>>, n_subjects |-> 0, subj_idx |-> <<>>,
             attrs |-> {"X", "subject_ids"}]
       ELSE [error |-> "", X |-> df, subject_ids |-> sq,
             unique_subject_ids |-> norm.unique_subject_ids,
             n_subjects |-> norm.n_subjects,
             subj_idx |-> norm.subj_idx,
             attrs |-> {"X", "subject_ids", "unique_subject_ids",
                        "n_subjects", "subj_idx"}]

\* ------------------------------------------------------------- inputs
XValues(n, m) == [i \in 1..n |-> [k \in 1..m |-> (i - 1) * m + k]]
DesignMatrices == {DataFrame(XValues(n, m), m) : n \in 1..MaxRows, m \in 1..MaxCols}
LabelSeqs == UNION {[1..n -> SubjectLabels] : n \in 1..MaxRows}
SubjectIdInputs == {Array1(s) : s \in LabelSeqs} \cup {Column(s) : s \in LabelSeqs}
SignalInputs == {Array1([i \in 1..n |-> 7 * i]) : n \in 1..MaxRows}

\* ------------------------------------------------ record of the last call
NoResults == [beta_subject |-> <<>>, beta_group |-> <<>>]
NoTable == [names |-> <<>>, columns |-> <<>>, rows |-> <<>>]
NoData == [engine |-> ""]
NoSignal == Array1(<<>>)
NoCall == [op |-> "", error |-> "", recompile |-> FALSE, cacheOps |-> <<>>,
           cacheBefore |-> "", signal |-> NoSignal, engineCalls |-> 0,
           data |-> NoData, returned |-> NoResults, melt |-> FALSE,
           ret |-> NoTable]

Init ==
    /\ cls = ""
    /\ status = "new"
    /\ attrs = {}
    /\ X = DataFrame(<<>>, 0)
    /\ subject_ids = NoSignal
    /\ unique_subject_ids = <<>>
    /\ n_subjects = 0
    /\ subj_idx = <<>>
    /\ model = ""
    /\ results = NoResults
    /\ cacheFile \in {"absent", "present"}
    /\ last = NoCall

\* ---------------------------------------------- HierarchicalStanModel
\* The condition of line 87: compile unless the cache exists and recompile
\* is not set.
\* The condition with "and" for "or".
NeedsCompileAnd(exists, recompile) == ~exists /\ recompile
NeedsCompile(exists, recompile) == ~exists \/ recompile

\* The cache steps of HierarchicalStanModel.__init__ after the base
\* constructor has returned: the operations done on the compiler and on the
\* cache file, the file afterwards, the model held and the error raised.
StanModelSetup(file, recompile, compileOk, loadOk) ==
    IF NeedsCompile(file = "present", recompile)
    THEN IF compileOk
         THEN [ops |-> <<"exists", "compile", "write">>, file |-> "present",
               model |-> "StanModel", error |-> ""]
         ELSE [ops |-> <<"exists", "compile">>, file |-> file,
               model |-> "", error |-> "CompileError"]
    ELSE IF file = "absent"
         THEN [ops |-> <<"exists", "read">>, file |-> file,
               model |-> "", error |-> "FileNotFoundError"]
    ELSE IF loadOk
         THEN [ops |-> <<"exists", "read">>, file |-> file,
               model |-> "StanModel", error |-> ""]
         ELSE [ops |-> <<"exists", "read">>, file |-> file,
               model |-> "", error |-> "UnpicklingError"]

SetBase(base) ==
    /\ X' = base.X
    /\ subject_ids' = base.subject_ids
    /\ unique_subject_ids' = base.unique_subject_ids
    /\ n_subjects' = base.n_subjects
    /\ subj_idx' = base.subj_idx

StanInit(df, ids, recompile, compileOk, loadOk) ==
    /\ status = "new"
    /\ cls' = "HierarchicalStanModel"
    /\ LET base == HierarchicalModelInit(df, ids)
           setup == StanModelSetup(cacheFile, recompile, compileOk, loadOk)
       IN /\ SetBase(base)
          /\ IF base.error # ""
             THEN /\ status' = "failed"
                  /\ attrs' = base.attrs
                  /\ model' = ""
                  /\ cacheFile' = cacheFile
                  /\ last' = [NoCall EXCEPT !.op = "init", !.error = base.error,
                                            !.recompile = recompile,
                                            !.cacheBefore = cacheFile]
             ELSE /\ status' = IF setup.error = "" THEN "constructed" ELSE "failed"
                  /\ attrs' = IF setup.error = "" THEN base.attrs \cup {"model"}
                              ELSE base.attrs
                  /\ model' = setup.model
                  /\ cacheFile' = setup.file
                  /\ last' = [NoCall EXCEPT !.op = "init", !.error = setup.error,
                                            !.recompile = recompile,
                                            !.cacheOps = setup.ops,
                                            !.cacheBefore = cacheFile]
    /\ UNCHANGED results

\* ---------------------------------------------- HierarchicalPymc3Model
Pymc3Init(df, ids, recompile) ==
    /\ status = "new"
    /\ cls' = "HierarchicalPymc3Model"
    /\ LET base == HierarchicalModelInit(df, ids)
       IN /\ SetBase(base)
          /\ status' = IF base.error = "" THEN "constructed" ELSE "failed"
          /\ attrs' = base.attrs
          /\ last' = [NoCall EXCEPT !.op = "init", !.error = base.error,
                                    !.recompile = recompile,
                                    !.cacheBefore = cacheFile]
    /\ UNCHANGED <<model, results, cacheFile>>

\* ------------------------------------------------------------ engines
\* A point of the parameter space of the hierarchical model with j subjects
\* and m predictors.
ParamPoints(j, m) ==
    {[beta_group |-> [k \in 1..m |-> c * k],
      group_sd |-> [k \in 1..m |-> c + k],
      offset |-> [s \in 1..j |-> [k \in 1..m |-> s * m + k - c]]] : c \in Seeds}

RECURSIVE SumSeq(_)
SumSeq(q) == IF q = <<>> THEN 0 ELSE Head(q) + SumSeq(Tail(q))
Dot(a, b) == SumSeq([k \in 1..Len(a) |-> a[k] * b[k]])

\* stan_code: transformed parameters, then the mean of the normal likelihood
\* of "measure": rows_dot_product(X, beta) with beta[i] = beta_subject[subj_idx[i]].
StanExpectation(data, par) ==
    LET beta_subject == [s \in 1..data.j |-> [k \in 1..data.m |->
                            par.beta_group[k] + par.group_sd[k] * par.offset[s][k]]]
        beta == [i \in 1..data.n |-> beta_subject[data.subj_idx[i]]]
    IN [shape |-> <<data.n>>,
        data |-> [i \in 1..data.n |-> Dot(data.X[i], beta[i])]]

\* The PyMC3 graph: subjectwise_est is m x j, subjectwise_est[:, subj_idx] is
\* m x n, and T.dot(X, ...) is the n x n matrix product, which the likelihood
\* of the residuals takes entry by entry.
Pymc3Expectation(graph, par) ==
    LET est == [k \in 1..graph.m |-> [s \in 1..graph.j |->
                   par.beta_group[k] + par.offset[s][k] * par.group_sd[k]]]
        picked == [k \in 1..graph.m |-> [c \in 1..graph.n |->
                      est[k][graph.subj_idx[c] + 1]]]
        prod == [i \in 1..graph.n |-> [c \in 1..graph.n |->
                    SumSeq([k \in 1..graph.m |-> graph.X[i][k] * picked[k][c]])]]
    IN [shape |-> <<graph.n, graph.n>>,
        data |-> IF graph.n = 0 THEN <<>>
                 ELSE [e \in 1..(graph.n * graph.n) |->
                          prod[(e - 1) \div graph.n + 1][((e - 1) % graph.n) + 1]]]

EngineExpectation(data, par) ==
    IF data.engine = "stan" THEN StanExpectation(data, par)
    ELSE Pymc3Expectation(data, par)

\* self.subj_idx + 1: numpy builds a new array and leaves its operand alone.
\* self.subj_idx += 1: the in-place form changes the operand too.
NpIAdd(a, c) ==
    [out |-> [i \in 1..Len(a) |-> a[i] + c], operand |-> [i \in 1..Len(a) |-> a[i] + c]]
NpAdd(a, c) == [out |-> [i \in 1..Len(a) |-> a[i] + c], operand |-> a]

\* The data dictionary with the 0-based index handed over as it is.
StanDataZeroBased(signal) ==
    [engine |-> "stan", measure |-> signal, subj_idx |-> subj_idx, n |-> NRows(X),
     j |-> n_subjects, m |-> NCols(X), X |-> X.values]

\* The data dictionary of HierarchicalStanModel.sample.
StanData(signal) ==
    [engine |-> "stan",
     measure |-> signal,
     subj_idx |-> NpAdd(subj_idx, 1).out,
     n |-> NRows(X),
     j |-> n_subjects,
     m |-> NCols(X),
     X |-> X.values]

\* What HierarchicalPymc3Model.sample builds its graph from.
Pymc3Graph(signal) ==
    [engine |-> "pymc3",
     signal |-> signal,
     X |-> X.values,
     subj_idx |-> subj_idx,
     n |-> NRows(X),
     j |-> n_subjects,
     m |-> NCols(X)]

\* A posterior-sample collection of the external engine: MaxDraws draws of a j x m
\* subject-coefficient matrix and of an m-vector of group coefficients.  The
\* values are the engine's; distinct entries get distinct values.
Draws(j, m, seed) ==
    [beta_subject |-> [t \in 1..MaxDraws |-> [s \in 1..j |-> [p \in 1..m |->
                          seed * 1000 + t * 100 + s * 10 + p]]],
     beta_group |-> [t \in 1..MaxDraws |-> [p \in 1..m |-> seed * 1000 + t * 100 + p]]]

\* residuals = signal - signal_est broadcasts the signal against an n x n
\* array, which works at run time only for a leading length of 1 or n.
BroadcastOk(signal, n) == signal.shape[1] \in {1, n}

\* self.results after "self.results = <engine call>": the assignment is not
\* reached when the engine raises.
\* Results assigned whatever the engine call ended with.
ResultsAfterAlways(prev, ok, returned) == returned
ResultsAfter(prev, ok, returned) == IF ok THEN returned ELSE prev

Sampled(ok) == IF ok THEN attrs \cup {"results"} ELSE attrs

StanSample(signal, ok, seed) ==
    /\ status = "constructed"
    /\ cls = "HierarchicalStanModel"
    /\ LET err == SignalCheck(signal, X)
           data == StanData(signal)
           returned == IF ok THEN Draws(data.j, data.m, seed) ELSE NoResults
       IN IF err # ""
          THEN /\ last' = [NoCall EXCEPT !.op = "sample", !.error = err,
                                         !.signal = signal]
               /\ UNCHANGED <<results, attrs, subj_idx>>
          ELSE /\ last' = [NoCall EXCEPT !.op = "sample",
                                         !.error = IF ok THEN "" ELSE "SamplingError",
                                         !.signal = signal,
                                         !.engineCalls = 1,
                                         !.data = data,
                                         !.returned = returned]
               /\ results' = ResultsAfter(results, ok, returned)
               /\ attrs' = Sampled(ok)
               /\ subj_idx' = NpAdd(subj_idx, 1).operand
    /\ UNCHANGED <<cls, status, X, subject_ids, unique_subject_ids, n_subjects,
                   model, cacheFile>>

\* HierarchicalPymc3Model.sample overrides the base method without calling
\* it: no length check.  "with pm.Model() as self.model" binds self.model
\* before the body runs.
Pymc3Sample(signal, ok, seed) ==
    /\ status = "constructed"
    /\ cls = "HierarchicalPymc3Model"
    /\ LET graph == Pymc3Graph(signal)
           done == ok /\ BroadcastOk(signal, graph.n)
           returned == IF done THEN Draws(graph.j, graph.m, seed) ELSE NoResults
       IN /\ last' = [NoCall EXCEPT !.op = "sample",
                                    !.error = IF done THEN "" ELSE "SamplingError",
                                    !.signal = signal,
                                    !.engineCalls = 1,
                                    !.data = graph,
                                    !.returned = returned]
          /\ results' = ResultsAfter(results, done, returned)
          /\ attrs' = Sampled(done) \cup {"model"}
    /\ model' = "pm.Model"
    /\ UNCHANGED <<cls, status, X, subject_ids, unique_subject_ids, n_subjects,
                   subj_idx, cacheFile>>

\* -------------------------------------------------- result accessors
RECURSIVE Flatten(_)
\* ndarray.reshape in C order: the rows of a matrix one after the other.
Flatten(rows) == IF rows = <<>> THEN <<>> ELSE Head(rows) \o Flatten(Tail(rows))

\* The same reshape in Fortran order: the columns one after the other.
FlattenF(rows) ==
    IF rows = <<>> THEN <<>>
    ELSE Flatten([p \in 1..Len(rows[1]) |-> [s \in 1..Len(rows) |-> rows[s][p]]])
ReshapeDrawsF(a) == [t \in 1..Len(a) |-> FlattenF(a[t])]

\* reshape((shape[0], prod(shape[1:]))) of the draws x j x m array.
ReshapeDraws(a) == [t \in 1..Len(a) |-> Flatten(a[t])]

\* pd.MultiIndex.from_product([a, b]): every pair, the first level slowest.
FromProduct(a, b) == Flatten([s \in 1..Len(a) |-> [p \in 1..Len(b) |-> <<a[s], b[p]>>]])

\* pd.melt(table): one row per cell, column after column, each row the
\* column's labels followed by the cell's value.
Melt(t) ==
    [names |-> IF Len(t.names) = 1 THEN <<"variable", "value">>
               ELSE t.names \o <<"value">>,
     columns |-> <<>>,
     rows |-> Flatten([c \in 1..Len(t.columns) |->
                          [r \in 1..Len(t.rows) |-> t.columns[c] \o <<t.rows[r][c]>>]])]

SubjectTraces(melt) ==
    LET wide == [names |-> <<"subject_id", "regressor">>,
                 columns |-> FromProduct(unique_subject_ids, X.columns),
                 rows |-> ReshapeDraws(results.beta_subject)]
    IN IF melt THEN Melt(wide) ELSE wide

GroupTraces(melt) ==
    LET wide == [names |-> <<"regressor">>,
                 columns |-> [p \in 1..NCols(X) |-> <<X.columns[p]>>],
                 rows |-> results.beta_group]
    IN IF melt THEN Melt(wide) ELSE wide

\* Looking a result accessor up on the instance: only the Stan adapter
\* defines them; neither the PyMC3 adapter nor the base class does.
HasAccessor(c) == c = "HierarchicalStanModel"

\* The error an accessor call ends with ("" if it returns).
AccessorError ==
    IF ~HasAccessor(cls) THEN "AttributeError"
    ELSE IF "results" \notin attrs THEN "NotSampledError"
    ELSE ""

Accessor(op, melt, table) ==
    /\ status = "constructed"
    /\ last' = [NoCall EXCEPT !.op = op, !.error = AccessorError, !.melt = melt,
                              !.ret = IF AccessorError = "" THEN table ELSE NoTable]
    /\ UNCHANGED <<cls, status, attrs, X, subject_ids, unique_subject_ids,
                   n_subjects, subj_idx, model, results, cacheFile>>

GetSubjectTraces(melt) == Accessor("get_subject_traces", melt, SubjectTraces(melt))

GetGroupTraces(melt) == Accessor("get_group_traces", melt, GroupTraces(melt))

\* get_group_parameters has no body after its check: it returns None.
GetGroupParameters == Accessor("get_group_parameters", FALSE, NoTable)

\* The guards in front of the quantifiers are the ones the actions state:
\* the constructor runs once, on a new instance; the methods need one.
Next ==
    \/ /\ status = "new"
       /\ \E df \in DesignMatrices, ids \in SubjectIdInputs,
             recompile \in BOOLEAN, compileOk \in BOOLEAN, loadOk \in BOOLEAN :
             StanInit(df, ids, recompile, compileOk, loadOk)
    \/ /\ status = "new"
       /\ \E df \in DesignMatrices, ids \in SubjectIdInputs, recompile \in BOOLEAN :
             Pymc3Init(df, ids, recompile)
    \/ /\ status = "constructed"
       /\ \E signal \in SignalInputs, ok \in BOOLEAN, seed \in Seeds :
             StanSample(signal, ok, seed)
    \/ /\ status = "constructed"
       /\ \E signal \in SignalInputs, ok \in BOOLEAN, seed \in Seeds :
             Pymc3Sample(signal, ok, seed)
    \/ \E melt \in BOOLEAN : GetSubjectTraces(melt)
    \/ \E melt \in BOOLEAN : GetGroupTraces(melt)
    \/ GetGroupParameters

Spec == Init /\ [][Next]_vars

\* ===================================================== properties
Accessors == {"get_subject_traces", "get_group_traces", "get_group_parameters"}
SeqRange(q) == {q[k] : k \in 1..Len(q)}
GivenLength == Len(subject_ids.data)

\* C1: once the normalizer has run, unique_subject_ids is strictly ascending
\* (so free of duplicates) and holds exactly the distinct values of
\* subject_ids, n_subjects is its length, and subj_idx has one entry per
\* observation with unique_subject_ids[subj_idx[i]] = subject_ids[i].
C1_NormalizerCorrect ==
    "subj_idx" \in attrs =>
        /\ \A a, b \in 1..Len(unique_subject_ids) :
              a < b => unique_subject_ids[a] < unique_subject_ids[b]
        /\ SeqRange(unique_subject_ids) = SeqRange(subject_ids.data)
        /\ n_subjects = Len(unique_subject_ids)
        /\ Len(subj_idx) = GivenLength
        /\ \A i \in 1..GivenLength :
              /\ subj_idx[i] \in 0..(n_subjects - 1)
              /\ unique_subject_ids[subj_idx[i] + 1] = subject_ids.data[i]

C1_Witness ==
    /\ "subj_idx" \in attrs
    /\ subject_ids.data = <<5, 1, 5>>
    /\ unique_subject_ids = <<1, 5>>
    /\ subj_idx = <<1, 0, 1>>

\* C2: an accessor called while no sample() has succeeded fails with the
\* not-sampled error and returns no table, on every adapter.
C2_AccessorBeforeSampleNotSampled ==
    (last.op \in Accessors /\ "results" \notin attrs) =>
        (last.error = "NotSampledError" /\ last.ret = NoTable)

\* C3: sample() with a signal whose length differs from the row count of X
\* fails with the signal-shape error, without an engine call and without
\* results from that call, on every adapter.
C3_SignalMismatchRejected ==
    (last.op = "sample" /\ Len(last.signal.data) # NRows(X)) =>
        /\ last.error = "SignalShapeError"
        /\ last.engineCalls = 0
        /\ last.returned = NoResults

\* C4: a construction with len(subject_ids) different from the row count of
\* X fails with the input-shape error of the row-count check, before the
\* normalizer has stored anything.
C4_RowMismatchInputShapeError ==
    (last.op = "init" /\ GivenLength # NRows(X)) =>
        /\ last.error = "InputShapeError"
        /\ attrs \cap {"unique_subject_ids", "n_subjects", "subj_idx"} = {}

\* The rows of a melted table that carry the labels of one column.
RowsOf(t, label) ==
    LET Mine(r) == SubSeq(r, 1, Len(label)) = label
    IN SelectSeq(t.rows, Mine)

\* C5: after a successful sample(), get_subject_traces() has j*m columns, one
\* per (subject_id, predictor) pair, and one row per draw, with the entry of
\* draw d under (unique_subject_ids[s], predictor p) equal to
\* beta_subject[d][s][p]; the melted form has one row per draw, subject and
\* predictor, carrying the same value.
C5_SubjectTracesFaithful ==
    (last.op = "get_subject_traces" /\ last.error = "") =>
        LET raw == results.beta_subject
            j == n_subjects
            m == NCols(X)
            t == last.ret
            Label(s, p) == <<unique_subject_ids[s], X.columns[p]>>
        IN IF last.melt
           THEN /\ Len(t.rows) = Len(raw) * j * m
                /\ t.names = <<"subject_id", "regressor", "value">>
                /\ \A s \in 1..j, p \in 1..m :
                      RowsOf(t, Label(s, p)) =
                          [d \in 1..Len(raw) |-> Label(s, p) \o <<raw[d][s][p]>>]
           ELSE /\ Len(t.columns) = j * m
                /\ Len(t.rows) = Len(raw)
                /\ \A s \in 1..j, p \in 1..m :
                      /\ Cardinality({c \in 1..Len(t.columns) :
                                         t.columns[c] = Label(s, p)}) = 1
                      /\ \A c \in 1..Len(t.columns), d \in 1..Len(raw) :
                            t.columns[c] = Label(s, p) => t.rows[d][c] = raw[d][s][p]

C5_Witness ==
    /\ last.op = "get_subject_traces"
    /\ last.error = ""
    /\ last.melt
    /\ n_subjects = 2
    /\ NCols(X) = 2
    /\ Len(last.ret.rows) = MaxDraws * 4

\* C6: a sample() call invokes the engine at most once; when it succeeds the
\* stored results are the collection that call returned, and when it fails
\* the stored results (or their absence) stay as they were; no other call
\* touches them, and a new instance has none.
C6_ResultsAreLastSuccess ==
    [][/\ status = "new" => "results" \notin attrs
       /\ last'.op = "sample" =>
             /\ last'.engineCalls <= 1
             /\ last'.error = "" =>
                   /\ last'.engineCalls = 1
                   /\ "results" \in attrs'
                   /\ results' = last'.returned
                   /\ results' # NoResults
             /\ last'.error # "" =>
                   /\ results' = results
                   /\ ("results" \in attrs') = ("results" \in attrs)
       /\ last'.op # "sample" =>
             /\ results' = results
             /\ ("results" \in attrs') = ("results" \in attrs)]_vars

C6_Witness ==
    /\ last.op = "sample"
    /\ last.error = "SamplingError"
    /\ "results" \in attrs
    /\ results = Draws(n_subjects, NCols(X), 2)

\* C7: after a successful construction every subj_idx[i] lies in
\* 0..n_subjects-1 and n_subjects <= n; the data the Stan engine gets has
\* subj_idx[i] + 1 for every i, all in 1..j, with j = n_subjects, n the row
\* count of X and m its column count.
C7_IndexRanges ==
    status = "constructed" =>
        /\ \A i \in 1..Len(subj_idx) : 0 <= subj_idx[i] /\ subj_idx[i] < n_subjects
        /\ Len(subj_idx) = NRows(X)
        /\ n_subjects <= NRows(X)
        /\ (last.op = "sample" /\ last.data.engine = "stan") =>
              /\ last.data.j = n_subjects
              /\ last.data.n = NRows(X)
              /\ last.data.m = NCols(X)
              /\ Len(last.data.subj_idx) = NRows(X)
              /\ \A i \in 1..NRows(X) :
                    /\ last.data.subj_idx[i] = subj_idx[i] + 1
                    /\ last.data.subj_idx[i] \in 1..last.data.j

C7_Witness ==
    /\ status = "constructed"
    /\ last.op = "sample"
    /\ last.data.engine = "stan"
    /\ last.data.subj_idx = <<3, 1, 2>>

\* C8: once the instance is constructed, no sample() and no accessor call
\* changes X, subject_ids, unique_subject_ids, n_subjects or subj_idx.
C8_ConstructionDataFixed ==
    [][status = "constructed" =>
          /\ X' = X
          /\ subject_ids' = subject_ids
          /\ unique_subject_ids' = unique_subject_ids
          /\ n_subjects' = n_subjects
          /\ subj_idx' = subj_idx]_vars

C8_Witness ==
    /\ cls = "HierarchicalStanModel"
    /\ last.op = "get_group_traces"
    /\ last.error = ""
    /\ subj_idx = <<1, 0>>

\* C9: a Stan construction that passes the row-count check compiles exactly
\* when the cache file is absent or recompile is set, and then writes the
\* cache only after a successful compile; otherwise it reads the cache and
\* neither compiles nor writes.  A successful construction leaves the cache
\* file present and a model held, a failed compile leaves the file as it
\* was, and a construction the row-count check rejects does not touch the
\* compiler or the cache.
C9_CachePolicy ==
    (last.op = "init" /\ cls = "HierarchicalStanModel") =>
        LET ops == SeqRange(last.cacheOps)
            rejected == last.error \in {"InputShapeError", "IndexError"}
        IN /\ rejected => (last.cacheOps = <<>> /\ cacheFile = last.cacheBefore)
           /\ ~rejected =>
                 /\ ("compile" \in ops) <=> (last.cacheBefore = "absent" \/ last.recompile)
                 /\ "write" \in ops =>
                       (last.cacheOps = <<"exists", "compile", "write">> /\ last.error = "")
                 /\ "compile" \notin ops => ("read" \in ops /\ "write" \notin ops)
                 /\ "compile" \in ops => "read" \notin ops
                 /\ last.error = "CompileError" =>
                       ("write" \notin ops /\ cacheFile = last.cacheBefore)
           /\ status = "constructed" =>
                 (cacheFile = "present" /\ "model" \in attrs /\ model = "StanModel")
           /\ status = "failed" => "model" \notin attrs

C9_Witness ==
    /\ last.op = "init"
    /\ cls = "HierarchicalStanModel"
    /\ status = "constructed"
    /\ last.cacheBefore = "present"
    /\ last.recompile
    /\ last.cacheOps = <<"exists", "compile", "write">>

\* C10: in the model each backend hands to its engine, the expected signal
\* has one scalar per observation, the dot product of X[i] with
\* beta_subject[subj_idx[i]], beta_subject[s] = beta_group + group_sd *
\* beta_subject_offset[s]; exactly n terms, none mixing observations.
C10_ExpectationPerObservation ==
    (last.op = "sample" /\ last.engineCalls = 1) =>
        \A par \in ParamPoints(n_subjects, NCols(X)) :
            LET mu == EngineExpectation(last.data, par)
                beta_subject == [s \in 1..n_subjects |-> [k \in 1..NCols(X) |->
                                    par.beta_group[k] + par.group_sd[k] * par.offset[s][k]]]
            IN /\ mu.shape = <<NRows(X)>>
               /\ Len(mu.data) = NRows(X)
               /\ \A i \in 1..NRows(X) :
                     mu.data[i] = Dot(X.values[i], beta_subject[subj_idx[i] + 1])

====
